---- MODULE Spec2Model ----
(***************************************************************************)
(* Model of PySuiteCRM's config_parser.py: the PySuiteCRMConfig dataclass  *)
(* and the two config adapters, ENVParser (process environment) and        *)
(* JSONParser (JSON file).                                                 *)
(*                                                                         *)
(* Python values are tagged records; the tag is the Python type.           *)
(* The process environment is a function from the names that are set to    *)
(* their string values.  A file is either missing or a sequence of JSON    *)
(* lexemes (punctuation and scalar literals).                              *)
(***************************************************************************)
EXTENDS Integers, Sequences, FiniteSets, TLC

VARIABLES
    env,      \* os.environ restricted to the three PYSUITECRM_ names
    parser,   \* the adapter the caller holds: its class, _json_config, parsed_config
    last,     \* the last constructor or parse_config call: its arguments, the
              \* slot before it, and the exception that left it
    failed,   \* how many ENVParser.parse_config calls have raised (up to MaxFail)
    pc,       \* concurrent callers: the statement of parse_config each is at
    local,    \* concurrent callers: the slot value the check read, and the
              \* local variables url, client_id, client_secret
    writes,   \* concurrent callers: the records assigned to the slot, in order
    changes   \* concurrent callers: how often the environment was changed

vars == <<env, parser, last, failed, pc, local, writes, changes>>

---------------------------------------------------------------------------
(* Bounds *)

\* number of distinct non-empty strings an environment variable may hold
NumStr == 2
\* the failure counter saturates here
MaxFail == 2
\* changes of the environment during one concurrent run
MaxEnvChanges == 2

StrPool == <<"a", "b", "c", "d">>
Strs == {StrPool[i] : i \in 1..NumStr}

---------------------------------------------------------------------------
(* Python values *)

None == [tag |-> "NoneType"]
Bool(b) == [tag |-> "bool", b |-> b]
Number(n) == [tag |-> "int", n |-> n]
Str(s) == [tag |-> "str", s |-> s]
List(items) == [tag |-> "list", items |-> items]
Dict(map) == [tag |-> "dict", map |-> map]

\* Truthy, had the dataclass defined a __bool__ or __len__ that made its
\* instances false
TruthyInstanceFalse(v) ==
    CASE v.tag = "NoneType" -> FALSE
      [] v.tag = "bool" -> v.b
      [] v.tag = "int" -> v.n # 0
      [] v.tag = "str" -> v.s # ""
      [] v.tag = "list" -> v.items # <<>>
      [] v.tag = "dict" -> DOMAIN v.map # {}
      [] OTHER -> FALSE

\* bool(v): no class of the module defines __bool__ or __len__, so an
\* instance of the dataclass is always true
Truthy(v) ==
    CASE v.tag = "NoneType" -> FALSE
      [] v.tag = "bool" -> v.b
      [] v.tag = "int" -> v.n # 0
      [] v.tag = "str" -> v.s # ""
      [] v.tag = "list" -> v.items # <<>>
      [] v.tag = "dict" -> DOMAIN v.map # {}
      [] OTHER -> TRUE

---------------------------------------------------------------------------
(* Outcomes of a call: the class of the exception that left it, or NoExc *)

NoExc == "none"
PySuiteCRMConfigException == "PySuiteCRMConfigException"
TypeError == "TypeError"
JSONDecodeError == "JSONDecodeError"
FileNotFoundError == "FileNotFoundError"

---------------------------------------------------------------------------
(* PySuiteCRMConfig *)

RequiredFields == {"url", "client_id", "client_secret"}
Fields == RequiredFields \cup {"custom_modules"}

\* PySuiteCRMConfig, had custom_modules not been passed on to the record
PySuiteCRMConfigNoModules(kwargs) ==
    IF DOMAIN kwargs \subseteq Fields /\ RequiredFields \subseteq DOMAIN kwargs
    THEN [exc |-> NoExc,
          val |-> [tag |-> "PySuiteCRMConfig",
                   url |-> kwargs["url"],
                   client_id |-> kwargs["client_id"],
                   client_secret |-> kwargs["client_secret"],
                   custom_modules |-> List(<<>>)]]
    ELSE [exc |-> TypeError, val |-> None]

\* the dataclass-generated __init__ called with keyword arguments kwargs
PySuiteCRMConfig(kwargs) ==
    IF DOMAIN kwargs \subseteq Fields /\ RequiredFields \subseteq DOMAIN kwargs
    THEN [exc |-> NoExc,
          val |-> [tag |-> "PySuiteCRMConfig",
                   url |-> kwargs["url"],
                   client_id |-> kwargs["client_id"],
                   client_secret |-> kwargs["client_secret"],
                   custom_modules |->
                       IF "custom_modules" \in DOMAIN kwargs
                       THEN kwargs["custom_modules"]
                       ELSE List(<<>>)]]
    ELSE [exc |-> TypeError, val |-> None]

---------------------------------------------------------------------------
(* ENVParser *)

PYSUITECRM_URL == "PYSUITECRM_URL"
PYSUITECRM_CLIENT_ID == "PYSUITECRM_CLIENT_ID"
PYSUITECRM_CLIENT_SECRET == "PYSUITECRM_CLIENT_SECRET"
EnvNames == {PYSUITECRM_URL, PYSUITECRM_CLIENT_ID, PYSUITECRM_CLIENT_SECRET}

\* os.environ.get(name)
os_environ_get(e, name) == IF name \in DOMAIN e THEN Str(e[name]) ELSE None

\* SlotSet, had the memo check been left out
SlotSetNever(self) == FALSE

\* `if self.parsed_config:`, the memo check that opens both parse_config
SlotSet(self) == Truthy(self.parsed_config)

\* ENVParser.__init__
ENVParser_init == [kind |-> "ENVParser", json_config |-> None, parsed_config |-> None]

\* EnvInvalid, had the test been `is None` instead of falsiness
EnvInvalidNoneOnly(url, client_id, client_secret) ==
    url = None \/ client_id = None \/ client_secret = None

\* `if not url or not client_id or not client_secret`
EnvInvalid(url, client_id, client_secret) ==
    ~Truthy(url) \/ ~Truthy(client_id) \/ ~Truthy(client_secret)

\* EnvKwargs, had client_id and client_secret been passed crosswise
EnvKwargsSwapped(url, client_id, client_secret) ==
    [k \in RequiredFields |->
        CASE k = "url" -> url
          [] k = "client_id" -> client_secret
          [] k = "client_secret" -> client_id]

\* the keyword arguments of the constructor call in ENVParser.parse_config
EnvKwargs(url, client_id, client_secret) ==
    [k \in RequiredFields |->
        CASE k = "url" -> url
          [] k = "client_id" -> client_id
          [] k = "client_secret" -> client_secret]

\* the tail of ENVParser.parse_config once the three variables are read
ENVParser_store(self, url, client_id, client_secret) ==
    IF EnvInvalid(url, client_id, client_secret)
    THEN [exc |-> PySuiteCRMConfigException, self |-> self]
    ELSE LET c == PySuiteCRMConfig(EnvKwargs(url, client_id, client_secret))
         IN  [exc |-> c.exc,
              self |-> IF c.exc = NoExc
                       THEN [self EXCEPT !.parsed_config = c.val]
                       ELSE self]

\* ENVParser.parse_config, had a failed call been remembered and raised again
ENVParser_parse_config_sticky(self, e) ==
    IF SlotSet(self)
    THEN [exc |-> NoExc, self |-> self]
    ELSE IF failed > 0
         THEN [exc |-> PySuiteCRMConfigException, self |-> self]
         ELSE ENVParser_store(self,
                              os_environ_get(e, PYSUITECRM_URL),
                              os_environ_get(e, PYSUITECRM_CLIENT_ID),
                              os_environ_get(e, PYSUITECRM_CLIENT_SECRET))

\* ENVParser.parse_config run to completion against environment e
ENVParser_parse_config(self, e) ==
    IF SlotSet(self)
    THEN [exc |-> NoExc, self |-> self]
    ELSE ENVParser_store(self,
                         os_environ_get(e, PYSUITECRM_URL),
                         os_environ_get(e, PYSUITECRM_CLIENT_ID),
                         os_environ_get(e, PYSUITECRM_CLIENT_SECRET))

---------------------------------------------------------------------------
(* json.load: a file's text is the sequence of its JSON lexemes *)

Punct(s) == [tag |-> "punct", s |-> s]
ScalarTags == {"NoneType", "bool", "int", "str"}

ParseFail == [ok |-> FALSE, val |-> None, rest |-> <<>>]
ParseOk(v, rest) == [ok |-> TRUE, val |-> v, rest |-> rest]

\* dict item assignment d[k] = v: a repeated key keeps the last value
DictSet(map, k, v) ==
    [x \in DOMAIN map \cup {k} |-> IF x = k THEN v ELSE map[x]]

RECURSIVE ParseValue(_), ParseMembers(_, _), ParseElements(_, _)

\* one JSON value at the head of ts
ParseValue(ts) ==
    IF ts = <<>> THEN ParseFail
    ELSE LET h == Head(ts) IN
         IF h.tag \in ScalarTags THEN ParseOk(h, Tail(ts))
         ELSE IF h = Punct("{")
              THEN IF Len(ts) >= 2 /\ ts[2] = Punct("}")
                   THEN ParseOk(Dict(<<>>), SubSeq(ts, 3, Len(ts)))
                   ELSE ParseMembers(Tail(ts), <<>>)
         ELSE IF h = Punct("[")
              THEN IF Len(ts) >= 2 /\ ts[2] = Punct("]")
                   THEN ParseOk(List(<<>>), SubSeq(ts, 3, Len(ts)))
                   ELSE ParseElements(Tail(ts), <<>>)
         ELSE ParseFail

\* the members of an object after its opening brace: "key": value, ... }
ParseMembers(ts, acc) ==
    IF Len(ts) < 3 \/ ts[1].tag # "str" \/ ts[2] # Punct(":") THEN ParseFail
    ELSE LET r == ParseValue(SubSeq(ts, 3, Len(ts))) IN
         IF ~r.ok \/ r.rest = <<>> THEN ParseFail
         ELSE LET map == DictSet(acc, ts[1].s, r.val) IN
              IF Head(r.rest) = Punct("}") THEN ParseOk(Dict(map), Tail(r.rest))
              ELSE IF Head(r.rest) = Punct(",") THEN ParseMembers(Tail(r.rest), map)
              ELSE ParseFail

\* the elements of an array after its opening bracket: value, ... ]
ParseElements(ts, acc) ==
    LET r == ParseValue(ts) IN
    IF ~r.ok \/ r.rest = <<>> THEN ParseFail
    ELSE LET items == Append(acc, r.val) IN
         IF Head(r.rest) = Punct("]") THEN ParseOk(List(items), Tail(r.rest))
         ELSE IF Head(r.rest) = Punct(",") THEN ParseElements(Tail(r.rest), items)
         ELSE ParseFail

\* json.load(infile): exactly one value and nothing after it
json_load(ts) ==
    LET r == ParseValue(ts) IN
    IF r.ok /\ r.rest = <<>>
    THEN [exc |-> NoExc, val |-> r.val]
    ELSE [exc |-> JSONDecodeError, val |-> None]

---------------------------------------------------------------------------
(* JSONParser *)

\* a path that names no file, and a readable file holding the lexemes ts
MissingFile == [exists |-> FALSE, text |-> <<>>]
File(ts) == [exists |-> TRUE, text |-> ts]

\* _load_file, had the open() been wrapped into the config exception
JSONParser_load_file_wrapped(f) ==
    IF ~f.exists THEN [exc |-> PySuiteCRMConfigException, val |-> None]
    ELSE LET j == json_load(f.text) IN
         IF j.exc # NoExc THEN j
         ELSE IF ~Truthy(j.val)
              THEN [exc |-> PySuiteCRMConfigException, val |-> None]
              ELSE j

\* JSONParser._load_file
JSONParser_load_file(f) ==
    IF ~f.exists THEN [exc |-> FileNotFoundError, val |-> None]
    ELSE LET j == json_load(f.text) IN
         IF j.exc # NoExc THEN j
         ELSE IF ~Truthy(j.val)
              THEN [exc |-> PySuiteCRMConfigException, val |-> None]
              ELSE j

\* JSONParser.__init__: the instance exists only when no exception left it
JSONParser_init(f) ==
    LET j == JSONParser_load_file(f) IN
    [exc |-> j.exc,
     self |-> [kind |-> "JSONParser", json_config |-> j.val, parsed_config |-> None]]

\* PySuiteCRMConfig(**d): d must be a mapping (its keys are strings, as
\* they come from JSON)
PySuiteCRMConfigUnpack(d) ==
    IF d.tag # "dict" THEN [exc |-> TypeError, val |-> None]
    ELSE PySuiteCRMConfig(d.map)

\* the tail of JSONParser.parse_config: build the record and assign it
JSONParser_store(self) ==
    LET c == PySuiteCRMConfigUnpack(self.json_config) IN
    [exc |-> c.exc,
     self |-> IF c.exc = NoExc
              THEN [self EXCEPT !.parsed_config = c.val]
              ELSE self]

\* JSONParser.parse_config
JSONParser_parse_config(self) ==
    IF SlotSet(self)
    THEN [exc |-> NoExc, self |-> self]
    ELSE JSONParser_store(self)

---------------------------------------------------------------------------
(* Inputs: environments and files *)

\* the strings an environment variable may be set to
EnvStrings == Strs \cup {""}

\* every environment over the three names: each one unset, empty or set
Environments == UNION {[S -> EnvStrings] : S \in SUBSET EnvNames}

KeyOrder == <<"url", "client_id", "client_secret", "custom_modules", "unexpected", "name">>

RECURSIVE json_dumps(_), DumpItems(_), DumpMembers(_, _)

\* the lexemes of the JSON text of value v, keys in KeyOrder; this is how
\* the well-formed input files are written, no code of the adapters
json_dumps(v) ==
    IF v.tag = "list" THEN <<Punct("[")>> \o DumpItems(v.items) \o <<Punct("]")>>
    ELSE IF v.tag = "dict"
         THEN <<Punct("{")>>
              \o DumpMembers(v.map, SelectSeq(KeyOrder, LAMBDA k : k \in DOMAIN v.map))
              \o <<Punct("}")>>
    ELSE <<v>>

DumpItems(items) ==
    IF items = <<>> THEN <<>>
    ELSE json_dumps(Head(items))
         \o (IF Len(items) > 1 THEN <<Punct(",")>> \o DumpItems(Tail(items)) ELSE <<>>)

DumpMembers(map, keys) ==
    IF keys = <<>> THEN <<>>
    ELSE <<Str(Head(keys)), Punct(":")>> \o json_dumps(map[Head(keys)])
         \o (IF Len(keys) > 1 THEN <<Punct(",")>> \o DumpMembers(map, Tail(keys)) ELSE <<>>)

\* a key that is absent, or present with one of the values vs
Entry(k, vs) == {<<>>} \cup {[x \in {k} |-> v] : v \in vs}

LeadsModule == Dict([x \in {"name"} |-> Str("Leads")])

\* JSON objects over the fields of the config and one unknown key
ObjectDocs ==
    {Dict(u @@ i @@ s @@ m @@ x) :
        u \in Entry("url", {Str(""), Str("a"), Number(1)}),
        i \in Entry("client_id", {Str("c")}),
        s \in Entry("client_secret", {Str("s")}),
        m \in Entry("custom_modules", {None, List(<<LeadsModule>>)}),
        x \in Entry("unexpected", {Str("x")})}

\* JSON documents that are not objects
OtherDocs ==
    {None, Bool(FALSE), Bool(TRUE), Number(0), Number(1), Str(""), Str("a"),
     List(<<>>), List(<<Number(1)>>)}

ExampleDoc ==
    Dict([k \in Fields |->
            CASE k = "url" -> Str("a")
              [] k = "client_id" -> Str("c")
              [] k = "client_secret" -> Str("s")
              [] k = "custom_modules" -> List(<<LeadsModule>>)])

\* texts json.load rejects or reads unlike json_dumps writes them: every
\* truncation of the example, text after the document, a trailing comma, a
\* key that is not a string, a missing colon, and a repeated key
OddTexts ==
    LET t == json_dumps(ExampleDoc) IN
    {SubSeq(t, 1, n) : n \in 0..(Len(t) - 1)}
    \cup {t \o <<Punct("}")>>, t \o t,
          <<Punct("{"), Str("url"), Punct(":"), Str("a"), Punct(","), Punct("}")>>,
          <<Punct("["), Number(1), Punct(","), Punct("]")>>,
          <<Punct("{"), Number(1), Punct(":"), Str("a"), Punct("}")>>,
          <<Punct("{"), Str("url"), Str("a"), Punct("}")>>,
          <<Punct("}")>>,
          <<Punct("{"), Str("url"), Punct(":"), Str("a"), Punct(","),
            Str("client_id"), Punct(":"), Str("c"), Punct(","),
            Str("client_secret"), Punct(":"), Str("s"), Punct(","),
            Str("url"), Punct(":"), Str("b"), Punct("}")>>}

Files ==
    {MissingFile} \cup {File(json_dumps(d)) : d \in ObjectDocs \cup OtherDocs}
    \cup {File(t) : t \in OddTexts}

---------------------------------------------------------------------------
(* The caller's view: one adapter at a time, used from one thread *)

NoParser == [kind |-> "none", json_config |-> None, parsed_config |-> None]

Callers == {"c1", "c2"}
NoLocal == [seen |-> None, url |-> None, client_id |-> None, client_secret |-> None]

Called(op, exc, e, f, pre) ==
    [op |-> op, exc |-> exc, env |-> e, file |-> f, pre |-> pre, failed |-> failed]

Init ==
    /\ env \in Environments
    /\ parser = NoParser
    /\ last = [op |-> "none", exc |-> NoExc, env |-> <<>>, file |-> MissingFile,
               pre |-> None, failed |-> 0]
    /\ failed = 0
    /\ pc = [c \in Callers |-> "idle"]
    /\ local = [c \in Callers |-> NoLocal]
    /\ writes = <<>>
    /\ changes = 0

\* os.environ[name] = s, done by the process outside the adapters
SetEnv(name, s) ==
    /\ env' = DictSet(env, name, s)
    /\ env' # env
    /\ UNCHANGED <<parser, last, failed, pc, local, writes, changes>>

\* del os.environ[name]
UnsetEnv(name) ==
    /\ name \in DOMAIN env
    /\ env' = [x \in DOMAIN env \ {name} |-> env[x]]
    /\ UNCHANGED <<parser, last, failed, pc, local, writes, changes>>

\* failed counts the ENVParser.parse_config calls that raised, up to MaxFail
Count(exc) == IF exc = NoExc \/ failed >= MaxFail THEN failed ELSE failed + 1

\* parser = ENVParser()
NewENVParser ==
    /\ parser = NoParser
    /\ parser' = ENVParser_init
    /\ last' = Called("ENVParser.__init__", NoExc, <<>>, MissingFile, None)
    /\ UNCHANGED <<env, failed, pc, local, writes, changes>>

\* parser = JSONParser(config_file), the path naming file f
NewJSONParser(f) ==
    LET r == JSONParser_init(f) IN
    /\ parser = NoParser
    /\ parser' = IF r.exc = NoExc THEN r.self ELSE NoParser
    /\ last' = Called("JSONParser.__init__", r.exc, <<>>, f, None)
    /\ UNCHANGED <<env, failed, pc, local, writes, changes>>

\* parser.parse_config() on the ENVParser
ENVParseConfig ==
    LET r == ENVParser_parse_config(parser, env) IN
    /\ parser.kind = "ENVParser"
    /\ parser' = r.self
    /\ last' = Called("ENVParser.parse_config", r.exc, env, MissingFile, parser.parsed_config)
    /\ failed' = Count(r.exc)
    /\ UNCHANGED <<env, pc, local, writes, changes>>

\* parser.parse_config() on the JSONParser
JSONParseConfig ==
    LET r == JSONParser_parse_config(parser) IN
    /\ parser.kind = "JSONParser"
    /\ parser' = r.self
    /\ last' = Called("JSONParser.parse_config", r.exc, <<>>, last.file, parser.parsed_config)
    /\ UNCHANGED <<env, failed, pc, local, writes, changes>>

Next ==
    \/ \E name \in EnvNames, s \in EnvStrings : SetEnv(name, s)
    \/ \E name \in EnvNames : UnsetEnv(name)
    \/ NewENVParser
    \/ \E f \in Files : NewJSONParser(f)
    \/ ENVParseConfig
    \/ JSONParseConfig

Spec == Init /\ [][Next]_vars

TypeOK ==
    /\ env \in Environments
    /\ failed \in 0..MaxFail
    /\ parser.kind \in {"none", "ENVParser", "JSONParser"}

---------------------------------------------------------------------------
(* Two callers inside parse_config of one adapter at once.  Each statement *)
(* of the method is one step of its caller; the environment may change     *)
(* between any two steps.                                                  *)

\* a JSON object that lacks required keys
PartialDoc == Dict([k \in {"url"} |-> Str("a")])

RaceInit ==
    /\ env \in Environments
    /\ parser \in {ENVParser_init,
                   JSONParser_init(File(json_dumps(ExampleDoc))).self,
                   JSONParser_init(File(json_dumps(PartialDoc))).self}
    /\ last = [op |-> "none", exc |-> NoExc, env |-> <<>>, file |-> MissingFile,
               pre |-> None, failed |-> 0]
    /\ failed = 0
    /\ pc = [c \in Callers |-> "idle"]
    /\ local = [c \in Callers |-> NoLocal]
    /\ writes = <<>>
    /\ changes = 0

\* caller c enters parse_config
RaceCall(c) ==
    /\ pc[c] = "idle"
    /\ pc' = [pc EXCEPT ![c] = "check"]
    /\ UNCHANGED <<env, parser, last, failed, local, writes, changes>>

\* `if self.parsed_config: return`
RaceCheck(c) ==
    /\ pc[c] = "check"
    /\ local' = [local EXCEPT ![c].seen = parser.parsed_config]
    /\ pc' = [pc EXCEPT ![c] =
                IF SlotSet(parser) THEN "returned"
                ELSE IF parser.kind = "ENVParser" THEN "get_url"
                ELSE "json_store"]
    /\ UNCHANGED <<env, parser, last, failed, writes, changes>>

\* url = os.environ.get('PYSUITECRM_URL')
RaceGetUrl(c) ==
    /\ pc[c] = "get_url"
    /\ local' = [local EXCEPT ![c].url = os_environ_get(env, PYSUITECRM_URL)]
    /\ pc' = [pc EXCEPT ![c] = "get_client_id"]
    /\ UNCHANGED <<env, parser, last, failed, writes, changes>>

\* client_id = os.environ.get('PYSUITECRM_CLIENT_ID')
RaceGetClientId(c) ==
    /\ pc[c] = "get_client_id"
    /\ local' = [local EXCEPT ![c].client_id = os_environ_get(env, PYSUITECRM_CLIENT_ID)]
    /\ pc' = [pc EXCEPT ![c] = "get_client_secret"]
    /\ UNCHANGED <<env, parser, last, failed, writes, changes>>

\* client_secret = os.environ.get('PYSUITECRM_CLIENT_SECRET')
RaceGetClientSecret(c) ==
    /\ pc[c] = "get_client_secret"
    /\ local' = [local EXCEPT ![c].client_secret =
                    os_environ_get(env, PYSUITECRM_CLIENT_SECRET)]
    /\ pc' = [pc EXCEPT ![c] = "store"]
    /\ UNCHANGED <<env, parser, last, failed, writes, changes>>

\* the outcome r of a caller's last statement: the slot as r left it, the
\* record (if any) appended to the history of assignments
RaceFinish(c, r) ==
    /\ parser' = r.self
    /\ writes' = IF r.exc = NoExc THEN Append(writes, r.self.parsed_config) ELSE writes
    /\ pc' = [pc EXCEPT ![c] = IF r.exc = NoExc THEN "returned" ELSE "raised"]
    /\ UNCHANGED <<env, last, failed, local, changes>>

\* the validation, raise and assignment that end ENVParser.parse_config
RaceStore(c) ==
    /\ pc[c] = "store"
    /\ RaceFinish(c, ENVParser_store(parser, local[c].url, local[c].client_id,
                                     local[c].client_secret))

\* self.parsed_config = PySuiteCRMConfig(**self._json_config)
RaceJSONStore(c) ==
    /\ pc[c] = "json_store"
    /\ RaceFinish(c, JSONParser_store(parser))

RaceSetEnv(name, s) ==
    /\ changes < MaxEnvChanges
    /\ env' = DictSet(env, name, s)
    /\ env' # env
    /\ changes' = changes + 1
    /\ UNCHANGED <<parser, last, failed, pc, local, writes>>

RaceUnsetEnv(name) ==
    /\ changes < MaxEnvChanges
    /\ name \in DOMAIN env
    /\ env' = [x \in DOMAIN env \ {name} |-> env[x]]
    /\ changes' = changes + 1
    /\ UNCHANGED <<parser, last, failed, pc, local, writes>>

RaceNext ==
    \/ \E c \in Callers : RaceCall(c)
    \/ \E c \in Callers : RaceCheck(c)
    \/ \E c \in Callers : RaceGetUrl(c)
    \/ \E c \in Callers : RaceGetClientId(c)
    \/ \E c \in Callers : RaceGetClientSecret(c)
    \/ \E c \in Callers : RaceStore(c)
    \/ \E c \in Callers : RaceJSONStore(c)
    \/ \E name \in EnvNames, s \in EnvStrings : RaceSetEnv(name, s)
    \/ \E name \in EnvNames : RaceUnsetEnv(name)

SpecRace == RaceInit /\ [][RaceNext]_vars

---------------------------------------------------------------------------
(* Properties *)

\* an environment in which all three variables are set and non-empty
EnvComplete(e) == EnvNames \subseteq DOMAIN e /\ \A n \in EnvNames : e[n] # ""

\* the record the three variables of e describe
RecordOf(e) ==
    [tag |-> "PySuiteCRMConfig",
     url |-> Str(e[PYSUITECRM_URL]),
     client_id |-> Str(e[PYSUITECRM_CLIENT_ID]),
     client_secret |-> Str(e[PYSUITECRM_CLIENT_SECRET]),
     custom_modules |-> List(<<>>)]

\* the last call was parse_config on an ENVParser whose slot was empty
EnvParseOnEmpty == last.op = "ENVParser.parse_config" /\ last.pre = None

\* the last call was parse_config on a JSONParser whose slot was empty
JsonParseOnEmpty == last.op = "JSONParser.parse_config" /\ last.pre = None

\* the document in the file the JSONParser was constructed on
Document == json_load(last.file.text)

\* C1: the first parse_config() of an ENVParser with an empty slot, called
\* while the three variables are all set and non-empty, succeeds and stores
\* the record of exactly those three values with custom_modules empty.
C1_EnvParseStoresEnvironment ==
    (EnvParseOnEmpty /\ last.failed = 0 /\ EnvComplete(last.env))
        => (last.exc = NoExc /\ parser.parsed_config = RecordOf(last.env))

C1_Witness ==
    /\ EnvParseOnEmpty /\ last.failed = 0 /\ EnvComplete(last.env)
    /\ last.env[PYSUITECRM_CLIENT_ID] # last.env[PYSUITECRM_CLIENT_SECRET]
    /\ parser.parsed_config # None

\* C2: parse_config() of an ENVParser with an empty slot, called while at
\* least one of the three variables is unset or empty, raises
\* PySuiteCRMConfigException and leaves the slot empty.
C2_EnvParseRejectsIncomplete ==
    (EnvParseOnEmpty /\ ~EnvComplete(last.env))
        => (last.exc = PySuiteCRMConfigException /\ parser.parsed_config = None)

C2_Witness ==
    /\ EnvParseOnEmpty
    /\ EnvNames \subseteq DOMAIN last.env
    /\ last.env[PYSUITECRM_URL] # ""
    /\ last.env[PYSUITECRM_CLIENT_ID] = ""
    /\ last.env[PYSUITECRM_CLIENT_SECRET] # ""
    /\ last.exc = PySuiteCRMConfigException

\* C3: for both adapters, once the slot holds a record no step changes the
\* adapter, whatever happens to the environment, and every call made from
\* then on returns without an exception.
C3_ParsedIsFinal ==
    [][parser.parsed_config # None
        => (parser' = parser /\ last'.exc = NoExc)]_vars

C3_Witness ==
    /\ last.op = "ENVParser.parse_config"
    /\ last.pre # None
    /\ ~EnvComplete(last.env)
    /\ parser.parsed_config = last.pre

\* C4: for a JSONParser constructed on a file whose document is an object
\* with the keys url, client_id, client_secret and at most custom_modules
\* besides, parse_config() succeeds and stores the values under those keys;
\* custom_modules is the value under its key, or the empty list without it.
C4_JsonFieldsMapped ==
    (JsonParseOnEmpty /\ Document.val.tag = "dict"
        /\ RequiredFields \subseteq DOMAIN Document.val.map
        /\ DOMAIN Document.val.map \subseteq Fields)
        => LET d == Document.val.map
               c == parser.parsed_config
           IN  /\ last.exc = NoExc
               /\ c # None
               /\ c.url = d["url"]
               /\ c.client_id = d["client_id"]
               /\ c.client_secret = d["client_secret"]
               /\ c.custom_modules = IF "custom_modules" \in DOMAIN d
                                     THEN d["custom_modules"]
                                     ELSE List(<<>>)

C4_Witness ==
    /\ JsonParseOnEmpty
    /\ Document.val = ExampleDoc
    /\ parser.parsed_config # None
    /\ parser.parsed_config.custom_modules = List(<<LeadsModule>>)

\* C5: when the decoded object has a key that is no field of the record,
\* or lacks a required key, parse_config() raises PySuiteCRMConfigException
\* and the slot stays empty.
C5_SchemaMismatchIsConfigError ==
    (JsonParseOnEmpty /\ Document.val.tag = "dict"
        /\ ~(RequiredFields \subseteq DOMAIN Document.val.map
             /\ DOMAIN Document.val.map \subseteq Fields))
        => (last.exc = PySuiteCRMConfigException /\ parser.parsed_config = None)

\* C6: constructing a JSONParser on a readable file that is not valid JSON,
\* or whose document is falsy, raises PySuiteCRMConfigException and leaves
\* no adapter behind.
C6_UnreadableIsConfigError ==
    (last.op = "JSONParser.__init__" /\ last.file.exists
        /\ (Document.exc # NoExc \/ ~Truthy(Document.val)))
        => (last.exc = PySuiteCRMConfigException /\ parser = NoParser)

\* C7: constructing a JSONParser on a path that names no file raises
\* FileNotFoundError, which is not the config exception, and leaves no
\* adapter on which parse_config() could be called.
C7_MissingFileIsFilesystemError ==
    (last.op = "JSONParser.__init__" /\ ~last.file.exists)
        => /\ last.exc = FileNotFoundError
           /\ last.exc # PySuiteCRMConfigException
           /\ parser = NoParser

C7_Witness ==
    /\ last.op = "JSONParser.__init__"
    /\ last.file = MissingFile
    /\ last.exc = FileNotFoundError

NonEmptyString(v) == v.tag = "str" /\ v.s # ""

\* C8: the slot of either adapter is empty or holds a record whose url,
\* client_id and client_secret are all non-empty strings.
C8_SlotEmptyOrValid ==
    parser.parsed_config = None
    \/ /\ NonEmptyString(parser.parsed_config.url)
       /\ NonEmptyString(parser.parsed_config.client_id)
       /\ NonEmptyString(parser.parsed_config.client_secret)

PastCheck == {"get_url", "get_client_id", "get_client_secret", "store", "json_store"}

\* C9: with the check and the assignment as separate steps, every caller
\* past the check saw the slot empty, so the slot is assigned at most once
\* per caller that saw it empty, and two callers can both do so, the second
\* assignment replacing the first record by a different one.
C9_CheckThenSetRace ==
    /\ \A c \in Callers : pc[c] \in PastCheck => local[c].seen = None
    /\ Len(writes) <= Cardinality({c \in Callers :
                                     pc[c] = "returned" /\ local[c].seen = None})

C9_Witness ==
    /\ Len(writes) = 2
    /\ writes[1] # writes[2]
    /\ parser.parsed_config = writes[2]
    /\ \A c \in Callers : pc[c] = "returned" /\ local[c].seen = None

\* C10: after one or more failed parse_config() calls on an ENVParser, a
\* call made while the three variables are all set and non-empty succeeds
\* and stores the record of the values current at that call.
C10_FailureNotSticky ==
    (EnvParseOnEmpty /\ last.failed > 0 /\ EnvComplete(last.env))
        => (last.exc = NoExc /\ parser.parsed_config = RecordOf(last.env))

C10_Witness ==
    /\ EnvParseOnEmpty /\ last.failed >= 2 /\ EnvComplete(last.env)
    /\ last.exc = NoExc
    /\ parser.parsed_config = RecordOf(env)

====
